---- MODULE Spec2Model ----
\* Model of src/main.rs: an image combiner that loads two images, brings them
\* to a common size, interleaves their RGBA pixels and saves the result.
\*
\* u32 quantities that take part in a multiplication are carried as
\* little-endian base-256 digit sequences, so that the exact product and the
\* product wrapped to 32 bits can both be computed.  The target is taken to
\* have a 64-bit usize.
EXTENDS Integers, Sequences, FiniteSets, TLC

VARIABLES
  pc,               \* position in main, or in the call under study
  overflow_checks,  \* build profile: TRUE = overflow-checks on (dev), FALSE = off (release)
  fs,               \* what the decoder finds at the two input paths
  image_1,          \* main: image_1
  image_2,          \* main: image_2
  image_format_1,   \* main: image_format_1
  image_format_2,   \* main: image_format_2
  smallest,         \* standardize_size: (width, height), also printed to stdout
  resize_calls,     \* the resize_exact calls made so far
  output,           \* main: output (a FloatingImage)
  vec_1,            \* combine_images / alternate_pixels: vec_1
  vec_2,            \* combine_images / alternate_pixels: vec_2
  combined_data,    \* main: combined_data
  result,           \* how the run or call ended
  saved             \* the file written by save_buffer_with_format

vars == <<pc, overflow_checks, fs, image_1, image_2, image_format_1,
          image_format_2, smallest, resize_calls, output, vec_1, vec_2,
          combined_data, result, saved>>

-----------------------------------------------------------------------------
\* Bounds of the model.

MaxDim == 4      \* small widths and heights are 1..MaxDim
MaxLen == 17     \* byte vectors handed to alternate_pixels / set_data have length 0..MaxLen

\* Widths and heights whose products leave the 32-bit range.
BigDimValues == {16384, 65536}
DimValues == (1..MaxDim) \cup BigDimValues

\* Dimensions of the images the decoder can deliver in a pipeline run.
PipeDims == {<<4, 4>>, <<2, 2>>, <<1, 5>>}
Colors == {"red", "blue"}
Formats == {"Png", "Jpeg"}
Seeds == {1, 200}

-----------------------------------------------------------------------------
\* Unsigned arithmetic.

Base == 256

\* The k low base-256 digits of n, least significant first.
Digits(n, k) == [j \in 1..k |-> (n \div Base ^ (j - 1)) % Base]

\* A u32 value (n < 2^31 in this model's inputs).
U32(n) == Digits(n, 4)

Digit(a, j) == IF j <= Len(a) THEN a[j] ELSE 0

RECURSIVE ColSum(_, _, _, _)
ColSum(a, b, c, j) ==
  IF j > Len(a) THEN 0
  ELSE (IF (c - j + 1) \in 1..Len(b) THEN a[j] * b[c - j + 1] ELSE 0)
       + ColSum(a, b, c, j + 1)

RECURSIVE MulCarry(_, _, _, _)
MulCarry(a, b, c, carry) ==
  IF c > Len(a) + Len(b) THEN <<>>
  ELSE LET t == ColSum(a, b, c, 1) + carry
       IN <<t % Base>> \o MulCarry(a, b, c + 1, t \div Base)

\* The exact product of two digit sequences.
BigMul(a, b) == MulCarry(a, b, 1, 0)

RECURSIVE LessFrom(_, _, _)
LessFrom(a, b, j) ==
  IF j = 0 THEN FALSE
  ELSE IF Digit(a, j) # Digit(b, j) THEN Digit(a, j) < Digit(b, j)
  ELSE LessFrom(a, b, j - 1)

BigLess(a, b) == LessFrom(a, b, IF Len(a) > Len(b) THEN Len(a) ELSE Len(b))
BigEq(a, b) == ~BigLess(a, b) /\ ~BigLess(b, a)

\* u32 * u32: the low 32 bits, and whether the exact product needed more.
U32Mul(x, y) ==
  LET p == BigMul(x, y)
  IN [overflow |-> \E j \in 5..Len(p) : p[j] # 0,
      value    |-> SubSeq(p, 1, 4)]

-----------------------------------------------------------------------------
\* Values.

Rgba(color) == IF color = "red" THEN <<255, 0, 0, 255>> ELSE <<0, 0, 255, 255>>

NoImage == [width |-> 0, height |-> 0, color |-> "none"]
NoFormat == "none"
NoDims == <<0, 0>>
NoOutput == [width |-> 0, height |-> 0, data |-> <<>>, capacity |-> U32(0), name |-> ""]
NoFile == [name |-> "", data |-> <<>>, width |-> 0, height |-> 0,
           color_type |-> "none", format |-> "none"]

Image(w, h, color) == [width |-> w, height |-> h, color |-> color]
dimensions(img) == <<img.width, img.height>>

\* A byte vector with a different value at every offset.
Ramp(seed, len) == [k \in 1..len |-> (seed + 7 * k) % 256]

-----------------------------------------------------------------------------
\* FloatingImage (main.rs 20-50).

\* FloatingImage::new: height * width * 4 is computed in u32; with overflow
\* checks the multiplication panics, without them it wraps.  The conversion
\* of a u32 to a 64-bit usize cannot fail.
FloatingImage_new(width, height, name, checks) ==
  LET hw == U32Mul(U32(height), U32(width))
      buffer_capacity == U32Mul(hw.value, U32(4))
  IN IF checks /\ (hw.overflow \/ buffer_capacity.overflow)
     THEN [panic |-> TRUE, value |-> NoOutput]
     ELSE [panic |-> FALSE,
           value |-> [width |-> width, height |-> height, data |-> <<>>,
                      capacity |-> buffer_capacity.value, name |-> name]]

\* set_data with the guard written as >= : data that fills the capacity
\* exactly is rejected.
set_data_strict(self, data) ==
  IF ~BigLess(U32(Len(data)), self.capacity)
  THEN [err |-> "BufferTooSmall", self |-> self]
  ELSE [err |-> "Ok",
        self |-> [self EXCEPT !.data = data, !.capacity = U32(Len(data))]]

\* FloatingImage::set_data: the moved-in vector brings its own allocation,
\* which fits its length.
set_data(self, data) ==
  IF BigLess(self.capacity, U32(Len(data)))
  THEN [err |-> "BufferTooSmall", self |-> self]
  ELSE [err |-> "Ok",
        self |-> [self EXCEPT !.data = data, !.capacity = U32(Len(data))]]

-----------------------------------------------------------------------------
\* Dimension reconciliation (main.rs 98-119).

get_smallest_dimensions(dim_1, dim_2, checks) ==
  LET pix_1 == U32Mul(U32(dim_1[1]), U32(dim_1[2]))
      pix_2 == U32Mul(U32(dim_2[1]), U32(dim_2[2]))
  IN IF checks /\ (pix_1.overflow \/ pix_2.overflow)
     THEN [panic |-> TRUE, value |-> NoDims]
     ELSE [panic |-> FALSE,
           value |-> IF BigLess(pix_1.value, pix_2.value) THEN dim_1 ELSE dim_2]

\* DynamicImage::resize_exact with the Triangle filter: the result has
\* exactly the requested size; a uniformly coloured image stays uniform.
resize_exact(img, width, height) ==
  [img EXCEPT !.width = width, !.height = height]

ResizeCall(which, img, dims) == [image |-> which, from |-> dimensions(img), to |-> dims]

standardize_size(img_1, img_2, checks) ==
  LET wh == get_smallest_dimensions(dimensions(img_1), dimensions(img_2), checks)
      width == wh.value[1]
      height == wh.value[2]
  IN IF wh.panic
     THEN [panic |-> TRUE, printed |-> NoDims, image_1 |-> img_1,
           image_2 |-> img_2, calls |-> <<>>]
     ELSE IF dimensions(img_2) = <<width, height>>
     THEN [panic |-> FALSE, printed |-> wh.value,
           image_1 |-> resize_exact(img_1, width, height), image_2 |-> img_2,
           calls |-> <<ResizeCall(1, img_1, wh.value)>>]
     ELSE [panic |-> FALSE, printed |-> wh.value,
           image_1 |-> img_1, image_2 |-> resize_exact(img_2, width, height),
           calls |-> <<ResizeCall(2, img_2, wh.value)>>]

-----------------------------------------------------------------------------
\* Interleaving (main.rs 121-155).

\* set_rgba with the exclusive range start..end: one byte short.
set_rgba_exclusive(vec, start, end) ==
  IF \E k \in start..(end - 1) : k >= Len(vec)
  THEN [panic |-> TRUE, value |-> <<>>]
  ELSE [panic |-> FALSE, value |-> SubSeq(vec, start + 1, end)]

\* set_rgba: the bytes at 0-based offsets start..=end, or a panic when one
\* of them lies outside the vector.
set_rgba(vec, start, end) ==
  IF \E k \in start..end : k >= Len(vec)
  THEN [panic |-> TRUE, value |-> <<>>]
  ELSE [panic |-> FALSE, value |-> SubSeq(vec, start + 1, end + 1)]

\* Vec::splice(start..=end, replace_with); panics when the range ends past
\* the vector.
splice(vec, start, end, replace_with) ==
  IF end + 1 > Len(vec)
  THEN [panic |-> TRUE, value |-> <<>>]
  ELSE [panic |-> FALSE,
        value |-> SubSeq(vec, 1, start) \o replace_with \o SubSeq(vec, end + 2, Len(vec))]

\* Source selection that switches every 8 bytes, i.e. every two pixels.
PixelSourcePairs(v1, v2, i) == IF (i \div 8) % 2 = 0 THEN v1 ELSE v2

\* The vector a block starting at byte offset i is taken from.
PixelSource(v1, v2, i) == IF i % 8 = 0 THEN v1 ELSE v2

RECURSIVE AlternateLoop(_, _, _, _)
AlternateLoop(combined, v1, v2, i) ==
  IF ~(i < Len(v1)) THEN [panic |-> FALSE, value |-> combined]
  ELSE LET rgba == set_rgba(PixelSource(v1, v2, i), i, i + 3)
           spliced == splice(combined, i, i + 3, rgba.value)
       IN IF rgba.panic \/ spliced.panic
          THEN [panic |-> TRUE, value |-> <<>>]
          ELSE AlternateLoop(spliced.value, v1, v2, i + 4)

alternate_pixels(v1, v2) ==
  AlternateLoop([k \in 1..Len(v1) |-> 0], v1, v2, 0)

\* DynamicImage::to_rgba8().into_vec(): width * height pixels of 4 bytes.
to_rgba8(img) ==
  [k \in 1..(img.width * img.height * 4) |-> Rgba(img.color)[((k - 1) % 4) + 1]]

combine_images(img_1, img_2) == alternate_pixels(to_rgba8(img_1), to_rgba8(img_2))

-----------------------------------------------------------------------------
\* The decoder and the encoder.

DecodeOk(img, format) == [kind |-> "Ok", image |-> img, format |-> format]
DecodeErr(kind) == [kind |-> kind, image |-> NoImage, format |-> NoFormat]

\* What find_image_from_path can return for one path.
DecodeOutcomes ==
  {DecodeErr(k) : k \in {"UnableToReadImageFromPath", "UnableToFormatImage",
                         "UnableToDecodeImage"}}
  \cup {DecodeOk(Image(d[1], d[2], c), f) : d \in PipeDims, c \in Colors, f \in Formats}

find_image_from_path(path) == fs[path]

-----------------------------------------------------------------------------
\* main (main.rs 52-80), one action per statement.

\* The comparison written with the first format on both sides.
FormatsDifferSelf(format_1, format_2) == format_1 # format_1

\* image_format_1 != image_format_2
FormatsDiffer(format_1, format_2) == format_1 # format_2

Paths == {"image_1", "image_2"}
OutputName == "output"

Init ==
  /\ pc = "Load1"
  /\ overflow_checks \in BOOLEAN
  /\ fs \in [Paths -> DecodeOutcomes]
  /\ image_1 = NoImage
  /\ image_2 = NoImage
  /\ image_format_1 = NoFormat
  /\ image_format_2 = NoFormat
  /\ smallest = NoDims
  /\ resize_calls = <<>>
  /\ output = NoOutput
  /\ vec_1 = <<>>
  /\ vec_2 = <<>>
  /\ combined_data = <<>>
  /\ result = "Running"
  /\ saved = NoFile

\* let (image_1, image_format_1) = find_image_from_path(args.image_1)?;
Load1 ==
  /\ pc = "Load1"
  /\ LET r == find_image_from_path("image_1")
     IN IF r.kind = "Ok"
        THEN /\ image_1' = r.image
             /\ image_format_1' = r.format
             /\ pc' = "Load2"
             /\ UNCHANGED result
        ELSE /\ result' = r.kind
             /\ pc' = "Failed"
             /\ UNCHANGED <<image_1, image_format_1>>
  /\ UNCHANGED <<overflow_checks, fs, image_2, image_format_2, smallest,
                 resize_calls, output, vec_1, vec_2, combined_data, saved>>

\* let (image_2, image_format_2) = find_image_from_path(args.image_2)?;
Load2 ==
  /\ pc = "Load2"
  /\ LET r == find_image_from_path("image_2")
     IN IF r.kind = "Ok"
        THEN /\ image_2' = r.image
             /\ image_format_2' = r.format
             /\ pc' = "ValidateFormats"
             /\ UNCHANGED result
        ELSE /\ result' = r.kind
             /\ pc' = "Failed"
             /\ UNCHANGED <<image_2, image_format_2>>
  /\ UNCHANGED <<overflow_checks, fs, image_1, image_format_1, smallest,
                 resize_calls, output, vec_1, vec_2, combined_data, saved>>

\* if image_format_1 != image_format_2 { return Err(DifferentImageFormats) }
ValidateFormats ==
  /\ pc = "ValidateFormats"
  /\ IF FormatsDiffer(image_format_1, image_format_2)
     THEN /\ result' = "DifferentImageFormats"
          /\ pc' = "Failed"
     ELSE /\ pc' = "Reconcile"
          /\ UNCHANGED result
  /\ UNCHANGED <<overflow_checks, fs, image_1, image_2, image_format_1,
                 image_format_2, smallest, resize_calls, output, vec_1, vec_2,
                 combined_data, saved>>

\* let (image_1, image_2) = standardize_size(image_1, image_2);
Reconcile ==
  /\ pc = "Reconcile"
  /\ LET r == standardize_size(image_1, image_2, overflow_checks)
     IN /\ image_1' = r.image_1
        /\ image_2' = r.image_2
        /\ smallest' = r.printed
        /\ resize_calls' = resize_calls \o r.calls
        /\ IF r.panic
           THEN result' = "Panic" /\ pc' = "Panicked"
           ELSE pc' = "New" /\ UNCHANGED result
  /\ UNCHANGED <<overflow_checks, fs, image_format_1, image_format_2, output,
                 vec_1, vec_2, combined_data, saved>>

\* let mut output = FloatingImage::new(image_1.width(), image_1.height(), args.output);
New ==
  /\ pc = "New"
  /\ LET r == FloatingImage_new(image_1.width, image_1.height, OutputName, overflow_checks)
     IN /\ output' = r.value
        /\ IF r.panic
           THEN result' = "Panic" /\ pc' = "Panicked"
           ELSE pc' = "Combine" /\ UNCHANGED result
  /\ UNCHANGED <<overflow_checks, fs, image_1, image_2, image_format_1,
                 image_format_2, smallest, resize_calls, vec_1, vec_2,
                 combined_data, saved>>

\* let combined_data = combine_images(image_1, image_2);
Combine ==
  /\ pc = "Combine"
  /\ vec_1' = to_rgba8(image_1)
  /\ vec_2' = to_rgba8(image_2)
  /\ LET r == combine_images(image_1, image_2)
     IN /\ combined_data' = r.value
        /\ IF r.panic
           THEN result' = "Panic" /\ pc' = "Panicked"
           ELSE pc' = "SetData" /\ UNCHANGED result
  /\ UNCHANGED <<overflow_checks, fs, image_1, image_2, image_format_1,
                 image_format_2, smallest, resize_calls, output, saved>>

\* output.set_data(combined_data)?;
SetData ==
  /\ pc = "SetData"
  /\ LET r == set_data(output, combined_data)
     IN /\ output' = r.self
        /\ IF r.err = "Ok"
           THEN pc' = "Save" /\ UNCHANGED result
           ELSE result' = r.err /\ pc' = "Failed"
  /\ UNCHANGED <<overflow_checks, fs, image_1, image_2, image_format_1,
                 image_format_2, smallest, resize_calls, vec_1, vec_2,
                 combined_data, saved>>

\* image::save_buffer_with_format(...): the encoder writes the file or fails.
Save ==
  /\ pc = "Save"
  /\ \E ok \in BOOLEAN :
       IF ok
       THEN /\ saved' = [name |-> output.name, data |-> output.data,
                         width |-> output.width, height |-> output.height,
                         color_type |-> "Rgba8", format |-> image_format_1]
            /\ result' = "Ok"
            /\ pc' = "Done"
       ELSE /\ result' = "UnableToSaveImage"
            /\ pc' = "Failed"
            /\ UNCHANGED saved
  /\ UNCHANGED <<overflow_checks, fs, image_1, image_2, image_format_1,
                 image_format_2, smallest, resize_calls, output, vec_1, vec_2,
                 combined_data>>

Next ==
  \/ Load1
  \/ Load2
  \/ ValidateFormats
  \/ Reconcile
  \/ New
  \/ Combine
  \/ SetData
  \/ Save

Spec == Init /\ [][Next]_vars

\* main is sequential and synchronous: a statement that is reached is run.
\* Fairness is stated for the statements up to the format check, which is
\* all the progress the properties below rely on.
FairSpec ==
  Spec /\ WF_vars(Load1) /\ WF_vars(Load2) /\ WF_vars(ValidateFormats)

-----------------------------------------------------------------------------
\* alternate_pixels called on arbitrary byte vectors.

InitAlternate ==
  /\ pc = "call_alternate_pixels"
  /\ overflow_checks \in BOOLEAN
  /\ fs = [p \in Paths |-> DecodeErr("UnableToReadImageFromPath")]
  /\ image_1 = NoImage
  /\ image_2 = NoImage
  /\ image_format_1 = NoFormat
  /\ image_format_2 = NoFormat
  /\ smallest = NoDims
  /\ resize_calls = <<>>
  /\ output = NoOutput
  /\ \E s \in Seeds, n \in 0..MaxLen : vec_1 = Ramp(s, n)
  /\ \E s \in Seeds, n \in 0..MaxLen : vec_2 = Ramp(s + 1, n)
  /\ combined_data = <<>>
  /\ result = "Running"
  /\ saved = NoFile

CallAlternatePixels ==
  /\ pc = "call_alternate_pixels"
  /\ LET r == alternate_pixels(vec_1, vec_2)
     IN /\ combined_data' = r.value
        /\ result' = IF r.panic THEN "Panic" ELSE "Ok"
  /\ pc' = "alternate_pixels_returned"
  /\ UNCHANGED <<overflow_checks, fs, image_1, image_2, image_format_1,
                 image_format_2, smallest, resize_calls, output, vec_1, vec_2,
                 saved>>

NextAlternate == CallAlternatePixels

SpecAlternate == InitAlternate /\ [][NextAlternate]_vars

-----------------------------------------------------------------------------
\* get_smallest_dimensions and standardize_size called on images of
\* arbitrary u32 dimensions.

InitDimensions ==
  /\ pc = "Reconcile"
  /\ overflow_checks \in BOOLEAN
  /\ fs = [p \in Paths |-> DecodeErr("UnableToReadImageFromPath")]
  /\ \E w \in DimValues, h \in DimValues : image_1 = Image(w, h, "red")
  /\ \E w \in DimValues, h \in DimValues : image_2 = Image(w, h, "blue")
  /\ image_format_1 = NoFormat
  /\ image_format_2 = NoFormat
  /\ smallest = NoDims
  /\ resize_calls = <<>>
  /\ output = NoOutput
  /\ vec_1 = <<>>
  /\ vec_2 = <<>>
  /\ combined_data = <<>>
  /\ result = "Running"
  /\ saved = NoFile

CallGetSmallestDimensions ==
  /\ pc = "Reconcile"
  /\ LET r == get_smallest_dimensions(dimensions(image_1), dimensions(image_2),
                                      overflow_checks)
     IN /\ smallest' = r.value
        /\ result' = IF r.panic THEN "Panic" ELSE "Ok"
  /\ pc' = "get_smallest_dimensions_returned"
  /\ UNCHANGED <<overflow_checks, fs, image_1, image_2, image_format_1,
                 image_format_2, resize_calls, output, vec_1, vec_2,
                 combined_data, saved>>

\* standardize_size is called by the Reconcile step of main.
NextDimensions ==
  \/ CallGetSmallestDimensions
  \/ Reconcile

SpecDimensions == InitDimensions /\ [][NextDimensions]_vars

-----------------------------------------------------------------------------
\* FloatingImage::new followed by one set_data, on arbitrary arguments.
\* image_1 carries the width and height passed to new, combined_data the
\* vector passed to set_data.

InitBuffer ==
  /\ pc = "call_new"
  /\ overflow_checks \in BOOLEAN
  /\ fs = [p \in Paths |-> DecodeErr("UnableToReadImageFromPath")]
  /\ \E w \in DimValues, h \in DimValues : image_1 = Image(w, h, "red")
  /\ image_2 = NoImage
  /\ image_format_1 = NoFormat
  /\ image_format_2 = NoFormat
  /\ smallest = NoDims
  /\ resize_calls = <<>>
  /\ output = NoOutput
  /\ vec_1 = <<>>
  /\ vec_2 = <<>>
  /\ \E s \in Seeds, n \in 0..MaxLen : combined_data = Ramp(s, n)
  /\ result = "Running"
  /\ saved = NoFile

CallNew ==
  /\ pc = "call_new"
  /\ LET r == FloatingImage_new(image_1.width, image_1.height, OutputName, overflow_checks)
     IN /\ output' = r.value
        /\ IF r.panic
           THEN result' = "Panic" /\ pc' = "new_panicked"
           ELSE pc' = "call_set_data" /\ UNCHANGED result
  /\ UNCHANGED <<overflow_checks, fs, image_1, image_2, image_format_1,
                 image_format_2, smallest, resize_calls, vec_1, vec_2,
                 combined_data, saved>>

CallSetData ==
  /\ pc = "call_set_data"
  /\ LET r == set_data(output, combined_data)
     IN /\ output' = r.self
        /\ result' = r.err
  /\ pc' = "set_data_returned"
  /\ UNCHANGED <<overflow_checks, fs, image_1, image_2, image_format_1,
                 image_format_2, smallest, resize_calls, vec_1, vec_2,
                 combined_data, saved>>

NextBuffer ==
  \/ CallNew
  \/ CallSetData

SpecBuffer == InitBuffer /\ [][NextBuffer]_vars

-----------------------------------------------------------------------------
\* Properties.

\* The 4 bytes of vec at 0-based byte offsets o .. o+3.
Block(vec, o) == SubSeq(vec, o + 1, o + 4)

\* The exact (unbounded) number of pixels of a width/height pair.
PixelCount(dim) == BigMul(U32(dim[1]), U32(dim[2]))

\* C1: for equal-length byte vectors whose length is a multiple of 8,
\* alternate_pixels returns a vector of the same length whose 4-byte block at
\* every offset o that is a multiple of 4 is vec_1's block when o % 8 = 0 and
\* vec_2's block otherwise.
C1_AlternateBlocks ==
  (/\ pc = "alternate_pixels_returned"
   /\ Len(vec_1) = Len(vec_2)
   /\ Len(vec_1) % 8 = 0)
  => /\ result = "Ok"
     /\ Len(combined_data) = Len(vec_1)
     /\ \A o \in 0..(Len(vec_1) - 1) :
          o % 4 = 0 =>
            Block(combined_data, o) =
              (IF o % 8 = 0 THEN Block(vec_1, o) ELSE Block(vec_2, o))

C1_Witness ==
  /\ pc = "alternate_pixels_returned"
  /\ Len(vec_1) = 16
  /\ Len(vec_2) = 16
  /\ result = "Ok"
  /\ Block(combined_data, 4) = Block(vec_2, 4)
  /\ Block(combined_data, 8) = Block(vec_1, 8)

\* The run was given an all-red 4x4 image as first input and an all-blue 4x4
\* image as second input, and has produced its output bytes.
RedBlueOutput ==
  /\ fs["image_1"].kind = "Ok"
  /\ fs["image_1"].image = Image(4, 4, "red")
  /\ fs["image_2"].kind = "Ok"
  /\ fs["image_2"].image = Image(4, 4, "blue")
  /\ pc \in {"Save", "Done"}

C3_SmallestByPixelCount ==
  pc = "get_smallest_dimensions_returned"
  => /\ result = "Ok"
     /\ smallest =
          (IF BigLess(PixelCount(dimensions(image_1)), PixelCount(dimensions(image_2)))
           THEN dimensions(image_1) ELSE dimensions(image_2))

\* C4: set_data on a freshly created FloatingImage succeeds and stores exactly
\* the data when its length is at most the reserved capacity, and otherwise
\* returns BufferTooSmall and leaves the (empty) content as it was; width,
\* height and name are untouched in both cases.
C4_SetDataContract ==
  [][pc = "call_set_data" =>
       /\ IF ~BigLess(output.capacity, U32(Len(combined_data)))
          THEN /\ result' = "Ok"
               /\ output'.data = combined_data
          ELSE /\ result' = "BufferTooSmall"
               /\ output'.data = output.data
               /\ output'.data = <<>>
       /\ output'.width = output.width
       /\ output'.height = output.height
       /\ output'.name = output.name]_vars

C4_Witness ==
  /\ pc = "set_data_returned"
  /\ result = "BufferTooSmall"
  /\ output.data = <<>>
  /\ Len(combined_data) > 4 * image_1.width * image_1.height

\* C5 as stated: standardize_size on two images of equal width and height
\* returns both unchanged and invokes no resize on either.
C5_EqualDimensionsNoResize ==
  [][(pc = "Reconcile" /\ dimensions(image_1) = dimensions(image_2)) =>
       /\ image_1' = image_1
       /\ image_2' = image_2
       /\ resize_calls' = resize_calls]_vars

\* C6 as stated: standardize_size on two images of unequal exact pixel count
\* resizes exactly the one with the larger pixel count, to the width and
\* height of the other, leaves the smaller one untouched and returns two
\* images of identical width and height.
C6_LargerIsResized ==
  [][(/\ pc = "Reconcile"
      /\ pc' # "get_smallest_dimensions_returned"
      /\ ~BigEq(PixelCount(dimensions(image_1)), PixelCount(dimensions(image_2)))) =>
       LET first_is_larger ==
             BigLess(PixelCount(dimensions(image_2)), PixelCount(dimensions(image_1)))
       IN /\ result' # "Panic"
          /\ IF first_is_larger
             THEN /\ resize_calls' = resize_calls \o
                       <<ResizeCall(1, image_1, dimensions(image_2))>>
                  /\ dimensions(image_1') = dimensions(image_2)
                  /\ image_2' = image_2
             ELSE /\ resize_calls' = resize_calls \o
                       <<ResizeCall(2, image_2, dimensions(image_1))>>
                  /\ dimensions(image_2') = dimensions(image_1)
                  /\ image_1' = image_1
          /\ dimensions(image_1') = dimensions(image_2')]_vars

\* Both input files decode, to different container formats.
FormatsMismatch ==
  /\ fs["image_1"].kind = "Ok"
  /\ fs["image_2"].kind = "Ok"
  /\ fs["image_1"].format # fs["image_2"].format

\* What holds at every point of a run whose inputs differ in format: it has
\* not got past the format check (no resize, no buffer, no interleaving, no
\* save) and, once failed, its error is DifferentImageFormats.
MismatchStopsAtCheck ==
  FormatsMismatch
  => /\ pc \in {"Load1", "Load2", "ValidateFormats", "Failed"}
     /\ result \in {"Running", "DifferentImageFormats"}
     /\ pc = "Failed" <=> result = "DifferentImageFormats"
     /\ resize_calls = <<>>
     /\ smallest = NoDims
     /\ output = NoOutput
     /\ combined_data = <<>>
     /\ saved = NoFile

\* C7: a run whose inputs both load but have different formats ends in the
\* failure state with DifferentImageFormats, and no Reconcile, Interleave,
\* Package or Save step occurs at any point of it.
C7_MismatchAborts ==
  /\ []MismatchStopsAtCheck
  /\ FormatsMismatch ~> (pc = "Failed" /\ result = "DifferentImageFormats")

C7_Witness ==
  /\ FormatsMismatch
  /\ pc = "Failed"
  /\ result = "DifferentImageFormats"

\* C8 as stated: every resize made by standardize_size has a target width
\* and a target height that are at most the resized image's own.
C8_NeverUpsamples ==
  \A k \in 1..Len(resize_calls) :
    /\ resize_calls[k].to[1] <= resize_calls[k].from[1]
    /\ resize_calls[k].to[2] <= resize_calls[k].from[2]

\* The exact value of width * height * 4.
ExactCapacity(width, height) == BigMul(BigMul(U32(width), U32(height)), U32(4))

\* A digit sequence that fits the 8 bytes of a 64-bit usize.
FitsUsize(a) == \A j \in 9..Len(a) : a[j] = 0

\* C9 as stated: FloatingImage::new succeeds, with empty content and a
\* capacity of exactly width * height * 4, whenever width * height * 4 fits
\* in usize.
C9_NewReservesExactly ==
  (/\ pc \in {"call_set_data", "new_panicked"}
   /\ FitsUsize(ExactCapacity(image_1.width, image_1.height)))
  => /\ pc = "call_set_data"
     /\ output.data = <<>>
     /\ BigEq(output.capacity, ExactCapacity(image_1.width, image_1.height))

\* C10 as stated: alternate_pixels panics whenever its two vectors differ in
\* length or the length is not a multiple of 4.
C10_PreconditionPanics ==
  (/\ pc = "alternate_pixels_returned"
   /\ (Len(vec_1) # Len(vec_2) \/ Len(vec_1) % 4 # 0))
  => result = "Panic"

====
